---- MODULE Spec2Model ----
(***************************************************************************)
(* PeeMeter: a single-page log of timestamped events kept in a React state *)
(* that is mirrored into one localStorage slot (hook useLocalStorage), with *)
(* a day-grouped list view, a per-day bar chart with drill-down, a          *)
(* clipboard export and a transient toast.                                  *)
(*                                                                         *)
(* Time is counted in ticks; oneDay ticks make one calendar day.  A JS     *)
(* string is a sequence of integer tokens: a token >= 0 is a number         *)
(* literal, the negative tokens are the punctuation and words of JSON.      *)
(*                                                                         *)
(* Every click handler runs to completion and React re-renders before the   *)
(* next event is dispatched, so an action is the handler together with the  *)
(* render that follows it.                                                   *)
(***************************************************************************)
EXTENDS Integers, Sequences, FiniteSets, TLC

VARIABLES
    storage,          \* the localStorage slot 'urinationLog'
    storedValue,      \* useLocalStorage state; App calls it log
    clock,            \* what Date.now() returns
    tz,               \* local time minus UTC, in ticks
    toastMessage,     \* App state toastMessage ("" is null)
    timers,           \* number of pending setTimeout callbacks of showToast
    timerLeft,        \* seconds left before each pending callback runs, oldest first
    toastAge,         \* seconds the message on screen has been shown (at most ToastDelay)
    sw,               \* the service worker: its cache, the fetches in flight, the server
    otherTab,         \* the value useLocalStorage holds in a second tab of the same origin
    otherLogged,      \* history: entries the second tab prepended since it opened or cleared
    clipboard,        \* the system clipboard
    copyPromise,      \* the pending navigator.clipboard.writeText promise
    view,             \* App state view
    chartPeriod,      \* App state chartPeriod
    selectedDayData,  \* App state selectedDayData
    listView,         \* what LogList rendered last (day buckets in order)
    chartData,        \* the memoized chartData of LogChart
    lastOp,           \* history: the last handler that ran and its outcome
    startLen,         \* history: length of the collection at the last load or clear
    nLogged           \* history: log actions since the last load or clear

vars == <<sw, otherTab, otherLogged, storage, storedValue, clock, tz, toastMessage, timers, timerLeft, toastAge, clipboard,
          copyPromise, view, chartPeriod, selectedDayData, listView, chartData,
          lastOp, startLen, nLogged>>

(***************************************************************************)
(* Bounds of the model.                                                     *)
(***************************************************************************)
MaxClock == 3
MaxLog == 3
MaxTimers == 2
MaxViewTs == 4
MaxAxisCount == 11
MaxVersion == 2
MaxInflight == 2

\* The delay of setTimeout in showToast, in seconds.
ToastDelay == 2

\* const oneDay = 1000 * 60 * 60 * 24, in ticks.
oneDay == 2
TimeZones == {-1, 0, 1}

(***************************************************************************)
(* JSON text.                                                               *)
(***************************************************************************)
LBRACK == -1
RBRACK == -2
LBRACE == -3
RBRACE == -4
COMMA == -5
COLON == -6
KEY_ID == -7
KEY_TIMESTAMP == -8
NULL_WORD == -9
GARBAGE == -10

LogEntry(i, t) == [id |-> i, timestamp |-> t]

\* JS values held by the hook: an array of entries, or another JSON value.
ArrayValue(items) == [kind |-> "array", items |-> items, num |-> 0]
NullValue == [kind |-> "null", items |-> <<>>, num |-> 0]
NumberValue(n) == [kind |-> "number", items |-> <<>>, num |-> n]
ObjectValue == [kind |-> "object", items |-> <<>>, num |-> 0]

initialValue == ArrayValue(<<>>)

StringifyEntry(e) ==
    <<LBRACE, KEY_ID, COLON, e.id, COMMA, KEY_TIMESTAMP, COLON, e.timestamp, RBRACE>>

RECURSIVE StringifyItems(_)
StringifyItems(items) ==
    IF items = <<>> THEN <<>>
    ELSE IF Len(items) = 1 THEN StringifyEntry(Head(items))
    ELSE StringifyEntry(Head(items)) \o <<COMMA>> \o StringifyItems(Tail(items))

\* JSON.stringify of a value the hook can hold.
JSONStringify(v) ==
    CASE v.kind = "array" -> <<LBRACK>> \o StringifyItems(v.items) \o <<RBRACK>>
      [] v.kind = "null" -> <<NULL_WORD>>
      [] v.kind = "number" -> <<v.num>>
      [] OTHER -> <<LBRACE, RBRACE>>

EntryLen == Len(StringifyEntry(LogEntry(0, 0)))

\* Whether text holds a serialized entry object at position i.
EntryAt(text, i) ==
    /\ i + EntryLen - 1 <= Len(text)
    /\ text[i] = LBRACE /\ text[i + 1] = KEY_ID /\ text[i + 2] = COLON
    /\ text[i + 3] >= 0
    /\ text[i + 4] = COMMA /\ text[i + 5] = KEY_TIMESTAMP /\ text[i + 6] = COLON
    /\ text[i + 7] >= 0
    /\ text[i + 8] = RBRACE

ParseError == [ok |-> FALSE, value |-> NullValue]
Parsed(v) == [ok |-> TRUE, value |-> v]

\* Elements of an array from position i on, acc being the elements read so far.
RECURSIVE ParseItems(_, _, _)
ParseItems(text, i, acc) ==
    IF ~EntryAt(text, i) THEN ParseError
    ELSE LET e == LogEntry(text[i + 3], text[i + 7])
             j == i + EntryLen
         IN  IF j = Len(text) /\ text[j] = RBRACK THEN Parsed(ArrayValue(Append(acc, e)))
             ELSE IF j < Len(text) /\ text[j] = COMMA THEN ParseItems(text, j + 1, Append(acc, e))
             ELSE ParseError

\* JSON.parse: ok = FALSE is the SyntaxError it throws.
JSONParse(text) ==
    IF text = <<>> THEN ParseError
    ELSE IF text = <<NULL_WORD>> THEN Parsed(NullValue)
    ELSE IF Len(text) = 1 /\ text[1] >= 0 THEN Parsed(NumberValue(text[1]))
    ELSE IF text = <<LBRACE, RBRACE>> THEN Parsed(ObjectValue)
    ELSE IF text = <<LBRACK, RBRACK>> THEN Parsed(ArrayValue(<<>>))
    ELSE IF text[1] = LBRACK THEN ParseItems(text, 2, <<>>)
    ELSE ParseError

(***************************************************************************)
(* The localStorage slot.                                                   *)
(***************************************************************************)
NoItem == [present |-> FALSE, text |-> <<>>]
Item(text) == [present |-> TRUE, text |-> text]

\* Whether `typeof window` is not 'undefined': the handlers run in a browser.
HasWindow == TRUE

\* The initializer of useState in useLocalStorage; readOk = FALSE is getItem throwing.
Load(win, readOk, slot) ==
    IF ~win THEN initialValue
    ELSE IF ~readOk THEN initialValue
    ELSE IF slot.present /\ slot.text # <<>>
         THEN LET p == JSONParse(slot.text)
              IN  IF p.ok THEN p.value ELSE initialValue
         ELSE initialValue

\* PrependUpdater is the updater handleLogUrination passes to setLog.
PrependUpdaterAppends(entry, prevLog) == Append(prevLog, entry)
PrependUpdater(entry, prevLog) == <<entry>> \o prevLog

\* setValue: the state is set first, then the slot is written inside the same
\* try block; writeOk = FALSE is setItem throwing, which the catch swallows.
\* error tells whether an exception leaves setValue.
SetValueWritesOld(cur, valueToStore, win, writeOk, slot) ==
    [storedValue |-> valueToStore,
     storage |-> IF win /\ writeOk THEN Item(JSONStringify(cur)) ELSE slot,
     error |-> FALSE]
SetValueRollsBack(cur, valueToStore, win, writeOk, slot) ==
    [storedValue |-> IF win /\ ~writeOk THEN cur ELSE valueToStore,
     storage |-> IF win /\ writeOk THEN Item(JSONStringify(valueToStore)) ELSE slot,
     error |-> FALSE]
SetValueMergesSlot(cur, valueToStore, win, writeOk, slot) ==
    [storedValue |-> valueToStore,
     storage |-> IF win /\ writeOk
                 THEN Item(JSONStringify(
                          IF valueToStore.kind = "array"
                          THEN ArrayValue(valueToStore.items \o Load(win, TRUE, slot).items)
                          ELSE valueToStore))
                 ELSE slot,
     error |-> FALSE]
SetValue(cur, valueToStore, win, writeOk, slot) ==
    [storedValue |-> valueToStore,
     storage |-> IF win /\ writeOk THEN Item(JSONStringify(valueToStore)) ELSE slot,
     error |-> FALSE]

\* App renders log.length and LogList renders entries.reduce: both need an array.
Mounted == storedValue.kind = "array"
log == storedValue.items

(***************************************************************************)
(* The service worker (sw.js).  The page issues GET requests only.          *)
(***************************************************************************)
Urls == {"/", "/index.html", "/index.tsx"}
urlsToCache == {"/", "/index.html"}

\* HTTP statuses of a network response; 0 is the status of an opaque response.
Statuses == {200, 404, 0}

NoResponse == [present |-> FALSE, status |-> 0, body |-> 0]
Response(status, body) == [present |-> TRUE, status |-> status, body |-> body]

\* What the server answers while it serves version v of the application.
ServerResponse(status, v) == Response(status, IF status = 200 THEN v ELSE 0)

NoDelivery == [from |-> "none", url |-> "/", response |-> NoResponse]

\* After install (cache.addAll(urlsToCache), which needs every response ok) and
\* activate (every cache but CACHE_NAME deleted): cache is the cache CACHE_NAME.
Activated ==
    [cache |-> [u \in Urls |-> IF u \in urlsToCache THEN Response(200, 0) ELSE NoResponse],
     inflight |-> <<>>,
     server |-> 0,
     last |-> NoDelivery]

\* if (networkResponse && networkResponse.status === 200)
ShouldCacheAny(networkResponse) == networkResponse.present
ShouldCache(networkResponse) == networkResponse.present /\ networkResponse.status = 200

\* return cachedResponse || fetchPromise
RespondsFromCache(cachedResponse) == cachedResponse.present

RemoveAt(s, i) == [j \in 1..(Len(s) - 1) |-> IF j < i THEN s[j] ELSE s[j + 1]]

(***************************************************************************)
(* Dates.  Intl.DateTimeFormat and Date work in the local time zone.        *)
(***************************************************************************)
\* formatTimestamp with year, month, day and weekday: the local calendar day.
FormatDay(timestamp, zone) == (timestamp + zone) \div oneDay

\* formatTimestamp with a time style: the local time of day.
FormatTime(timestamp, zone) == (timestamp + zone) % oneDay

\* date.setHours(0, 0, 0, 0): the instant of the local midnight before timestamp.
LocalMidnight(timestamp, zone) == timestamp - ((timestamp + zone) % oneDay)

\* date.toISOString().split('T')[0]: the UTC calendar day of an instant.
ISODate(instant) == instant \div oneDay

\* The calendar-day key of the chart and of the drill-down.
DateStringUTC(timestamp, zone) == ISODate(timestamp)
DateString(timestamp, zone) == ISODate(LocalMidnight(timestamp, zone))

\* Array.prototype.sort((a, b) => b.timestamp - a.timestamp): stable.
RECURSIVE InsertDesc(_, _)
InsertDesc(e, s) ==
    IF s = <<>> THEN <<e>>
    ELSE IF Head(s).timestamp >= e.timestamp THEN <<Head(s)>> \o InsertDesc(e, Tail(s))
    ELSE <<e>> \o s

RECURSIVE SortDescAcc(_, _)
SortDescAcc(s, acc) ==
    IF s = <<>> THEN acc ELSE SortDescAcc(Tail(s), InsertDesc(Head(s), acc))

SortDesc(s) == SortDescAcc(s, <<>>)

(***************************************************************************)
(* LogList.                                                                 *)
(***************************************************************************)
\* acc[date].push(entry), creating the bucket at the end when it is new.
PushToBucket(acc, date, entry) ==
    IF \E i \in 1..Len(acc) : acc[i].date = date
    THEN [i \in 1..Len(acc) |->
            IF acc[i].date = date
            THEN [date |-> date, entries |-> Append(acc[i].entries, entry)]
            ELSE acc[i]]
    ELSE Append(acc, [date |-> date, entries |-> <<entry>>])

RECURSIVE GroupReduce(_, _, _)
GroupReduce(entries, zone, acc) ==
    IF entries = <<>> THEN acc
    ELSE GroupReduce(Tail(entries), zone,
                     PushToBucket(acc, FormatDay(Head(entries).timestamp, zone), Head(entries)))

\* groupedEntries: the buckets in the order Object.keys lists them.
GroupedEntries(entries, zone) == GroupReduce(entries, zone, <<>>)

\* The comparator of sortedDates: b goes before a when it returns > 0.
CompareDatesAscending(a, b) == a.entries[1].timestamp - b.entries[1].timestamp
CompareDates(a, b) == b.entries[1].timestamp - a.entries[1].timestamp

RECURSIVE InsertBucket(_, _)
InsertBucket(b, s) ==
    IF s = <<>> THEN <<b>>
    ELSE IF CompareDates(Head(s), b) <= 0 THEN <<Head(s)>> \o InsertBucket(b, Tail(s))
    ELSE <<b>> \o s

RECURSIVE SortBucketsAcc(_, _)
SortBucketsAcc(s, acc) ==
    IF s = <<>> THEN acc ELSE SortBucketsAcc(Tail(s), InsertBucket(Head(s), acc))

\* sortedDates, each date with its bucket as it is when the dates are sorted.
SortedDates(grouped) == SortBucketsAcc(grouped, <<>>)

\* What LogList renders: the buckets in sortedDates order, each sorted in place.
RenderLogList(entries, zone) ==
    LET sorted == SortedDates(GroupedEntries(entries, zone))
    IN  [i \in 1..Len(sorted) |->
            [date |-> sorted[i].date, entries |-> SortDesc(sorted[i].entries)]]

(***************************************************************************)
(* LogChart.                                                                *)
(***************************************************************************)
InPeriodInclusive(timestamp, period, now) ==
    IF period = "week" THEN now - timestamp <= 7 * oneDay
    ELSE IF period = "month" THEN now - timestamp <= 30 * oneDay
    ELSE TRUE
InPeriod(timestamp, period, now) ==
    IF period = "week" THEN now - timestamp < 7 * oneDay
    ELSE IF period = "month" THEN now - timestamp < 30 * oneDay
    ELSE TRUE

\* entries.filter(...) of chartData.
FilteredEntries(entries, period, now) ==
    SelectSeq(entries, LAMBDA e : InPeriod(e.timestamp, period, now))

CountInBin(acc, dateString, date) ==
    IF \E i \in 1..Len(acc) : acc[i].fullDate = dateString
    THEN [i \in 1..Len(acc) |->
            IF acc[i].fullDate = dateString
            THEN [acc[i] EXCEPT !.value = @ + 1]
            ELSE acc[i]]
    ELSE Append(acc, [fullDate |-> dateString, value |-> 1, date |-> date])

RECURSIVE CountsByDay(_, _, _)
CountsByDay(entries, zone, acc) ==
    IF entries = <<>> THEN acc
    ELSE LET t == Head(entries).timestamp
         IN  CountsByDay(Tail(entries), zone,
                         CountInBin(acc, DateString(t, zone), LocalMidnight(t, zone)))

\* .sort((a, b) => a.date.getTime() - b.date.getTime())
RECURSIVE InsertBin(_, _)
InsertBin(b, s) ==
    IF s = <<>> THEN <<b>>
    ELSE IF Head(s).date <= b.date THEN <<Head(s)>> \o InsertBin(b, Tail(s))
    ELSE <<b>> \o s

RECURSIVE SortBinsAcc(_, _)
SortBinsAcc(s, acc) ==
    IF s = <<>> THEN acc ELSE SortBinsAcc(Tail(s), InsertBin(Head(s), acc))

\* chartData, computed with now = new Date() when the memo is recomputed.
ChartData(entries, period, now, zone) ==
    SortBinsAcc(CountsByDay(FilteredEntries(entries, period, now), zone, <<>>), <<>>)

\* entries.filter(...) of handleBarClick.
DayEntriesByUTCDay(entries, dateString, zone) ==
    SelectSeq(entries, LAMBDA e : DateStringUTC(e.timestamp, zone) = dateString)
DayEntries(entries, dateString, zone) ==
    SelectSeq(entries, LAMBDA e : DateString(e.timestamp, zone) = dateString)

\* What the render after a state change leaves in the two views: App shows
\* LogList when view is 'list' and LogChart otherwise.
RenderedList(value, vw, zone) ==
    IF vw = "list" /\ value.kind = "array" THEN RenderLogList(value.items, zone) ELSE <<>>

RenderedChart(value, vw, period, now, zone) ==
    IF vw = "chart" /\ value.kind = "array"
    THEN ChartData(value.items, period, now, zone) ELSE <<>>

\* Math.max(...chartData.map(d => d.value), 0)
RECURSIVE MaxOfValues(_, _)
MaxOfValues(data, acc) ==
    IF data = <<>> THEN acc
    ELSE MaxOfValues(Tail(data), IF Head(data).value > acc THEN Head(data).value ELSE acc)

\* Math.ceil(n / d) * d and Math.round(p / q) for n, p >= 0 and d, q > 0.
CeilTo(n, d) == ((n + d - 1) \div d) * d
RoundDiv(p, q) == (2 * p + q) \div (2 * q)

\* The consts LogChart computes from chartData on every render that draws the
\* chart (chartData.length > 0).
maxValue == MaxOfValues(chartData, 0)
yAxisTopNotRounded == maxValue
yAxisTop == IF maxValue <= 5 THEN maxValue ELSE CeilTo(maxValue, 5)
numTicks == IF yAxisTop > 0 THEN (IF yAxisTop < 5 THEN yAxisTop ELSE 5) ELSE 0
yAxisLabels ==
    IF yAxisTop > 0
    THEN [i \in 1..(numTicks + 1) |-> RoundDiv(yAxisTop * (i - 1), numTicks)]
    ELSE <<0>>

(***************************************************************************)
(* Export.                                                                  *)
(***************************************************************************)
ExportLine(timestamp, zone) ==
    [date |-> FormatDay(timestamp, zone), time |-> FormatTime(timestamp, zone)]

\* textToCopy: the lines that join('\n') joins.
TextToCopy(entries, zone) ==
    [i \in 1..Len(entries) |-> ExportLine(entries[i].timestamp, zone)]

(***************************************************************************)
(* The application.                                                         *)
(***************************************************************************)
NoClip == [written |-> FALSE, text |-> <<>>]
NoPromise == [pending |-> FALSE, text |-> <<>>]
NoSelection == [open |-> FALSE, items |-> <<>>]
NoTab == [kind |-> "closed", items |-> <<>>, num |-> 0]
Op(name) == [name |-> name, arg |-> 0]

\* The state after the first render of App.
Start(slot, readOk, zone, now) ==
    /\ storage = slot
    /\ storedValue = Load(HasWindow, readOk, slot)
    /\ clock = now
    /\ tz = zone
    /\ toastMessage = ""
    /\ timers = 0
    /\ timerLeft = <<>>
    /\ toastAge = 0
    /\ otherTab = NoTab
    /\ otherLogged = 0
    /\ sw = Activated
    /\ clipboard = NoClip
    /\ copyPromise = NoPromise
    /\ view = "list"
    /\ chartPeriod = "all"
    /\ selectedDayData = NoSelection
    /\ listView = RenderedList(Load(HasWindow, readOk, slot), "list", zone)
    /\ chartData = <<>>
    /\ lastOp = Op("load")
    /\ startLen = Len(Load(HasWindow, readOk, slot).items)
    /\ nLogged = 0

\* showToast: sets the message and schedules one more dismiss callback.
ShowToast(message) ==
    /\ toastMessage' = message
    /\ timers' = timers + 1
    /\ timerLeft' = Append(timerLeft, ToastDelay)
    /\ toastAge' = 0

\* The callback of setTimeout in showToast; callbacks of one delay run in the
\* order they were scheduled.
TimerFire ==
    /\ timers > 0
    /\ toastMessage' = ""
    /\ timers' = timers - 1
    /\ timerLeft' = Tail(timerLeft)
    /\ toastAge' = 0
    /\ lastOp' = Op("timer")
    /\ UNCHANGED <<sw, otherTab, otherLogged, storage, storedValue, clock, tz, clipboard, copyPromise, view,
                   chartPeriod, selectedDayData, listView, chartData, startLen, nLogged>>

\* One second passes; a callback that is due runs before more time passes.
Elapse ==
    /\ timerLeft # <<>>
    /\ \A i \in 1..Len(timerLeft) : timerLeft[i] > 0
    /\ timerLeft' = [i \in 1..Len(timerLeft) |-> timerLeft[i] - 1]
    /\ toastAge' = IF toastMessage = "" \/ toastAge = ToastDelay THEN toastAge ELSE toastAge + 1
    /\ lastOp' = Op("elapse")
    /\ UNCHANGED <<sw, otherTab, otherLogged, storage, storedValue, clock, tz, toastMessage, timers, clipboard,
                   copyPromise, view, chartPeriod, selectedDayData, listView, chartData,
                   startLen, nLogged>>

\* The callback of the oldest pending setTimeout runs when its delay is over.
TimerDue ==
    /\ timerLeft # <<>>
    /\ Head(timerLeft) = 0
    /\ TimerFire

\* The wall clock advances.
Tick ==
    /\ clock < MaxClock
    /\ clock' = clock + 1
    /\ lastOp' = Op("tick")
    /\ UNCHANGED <<sw, otherTab, otherLogged, storage, storedValue, tz, toastMessage, timers, timerLeft, toastAge, clipboard, copyPromise,
                   view, chartPeriod, selectedDayData, listView, chartData, startLen, nLogged>>

\* The wall clock is set back (Date.now() is not monotonic).
SetClock(c) ==
    /\ c < clock
    /\ clock' = c
    /\ lastOp' = Op("setclock")
    /\ UNCHANGED <<sw, otherTab, otherLogged, storage, storedValue, tz, toastMessage, timers, timerLeft, toastAge, clipboard, copyPromise,
                   view, chartPeriod, selectedDayData, listView, chartData, startLen, nLogged>>

\* handleLogUrination: Date.now() is read once for id and once for timestamp,
\* and the clock may advance by tick between the two reads.
LogUrination(tick, writeOk) ==
    /\ Mounted
    /\ Len(log) < MaxLog
    /\ timers < MaxTimers
    /\ clock + tick <= MaxClock
    /\ LET newEntry == LogEntry(clock, clock + tick)
           r == SetValue(storedValue, ArrayValue(PrependUpdater(newEntry, log)),
                         HasWindow, writeOk, storage)
       IN  /\ storedValue' = r.storedValue
           /\ storage' = r.storage
           /\ IF r.error THEN UNCHANGED <<toastMessage, timers, timerLeft, toastAge>>
                         ELSE ShowToast("Registro guardado!")
           /\ listView' = RenderedList(r.storedValue, view, tz)
           /\ chartData' = RenderedChart(r.storedValue, view, chartPeriod, clock + tick, tz)
    /\ clock' = clock + tick
    /\ lastOp' = Op(IF writeOk THEN "log_ok" ELSE "log_failed")
    /\ nLogged' = nLogged + 1
    /\ UNCHANGED <<sw, otherTab, otherLogged, tz, clipboard, copyPromise, view, chartPeriod, selectedDayData, startLen>>

\* if (window.confirm(...)) of handleClearLog.
ClearConfirmedAlways(answer) == TRUE
ClearConfirmed(answer) == answer

\* handleClearLog.
ClearLog(answer, writeOk) ==
    /\ Mounted
    /\ timers < MaxTimers
    /\ IF ClearConfirmed(answer)
       THEN LET r == SetValue(storedValue, ArrayValue(<<>>), HasWindow, writeOk, storage)
            IN  /\ storedValue' = r.storedValue
                /\ storage' = r.storage
                /\ IF r.error THEN UNCHANGED <<toastMessage, timers, timerLeft, toastAge>>
                              ELSE ShowToast("Registro borrado.")
                /\ listView' = RenderedList(r.storedValue, view, tz)
                /\ chartData' = RenderedChart(r.storedValue, view, chartPeriod, clock, tz)
                /\ startLen' = 0
                /\ nLogged' = 0
       ELSE UNCHANGED <<storedValue, storage, toastMessage, timers, timerLeft, toastAge, listView, chartData,
                        startLen, nLogged>>
    /\ lastOp' = Op(IF ~answer THEN "clear_declined"
                    ELSE IF writeOk THEN "clear_ok" ELSE "clear_failed")
    /\ UNCHANGED <<sw, otherTab, otherLogged, clock, tz, clipboard, copyPromise, view, chartPeriod, selectedDayData>>

\* The page is loaded again: every state of App starts afresh from the slot.
Reload(readOk) ==
    /\ storedValue' = Load(HasWindow, readOk, storage)
    /\ toastMessage' = ""
    /\ timers' = 0
    /\ timerLeft' = <<>>
    /\ toastAge' = 0
    /\ copyPromise' = NoPromise
    /\ view' = "list"
    /\ chartPeriod' = "all"
    /\ selectedDayData' = NoSelection
    /\ listView' = RenderedList(Load(HasWindow, readOk, storage), "list", tz)
    /\ chartData' = <<>>
    /\ lastOp' = Op("load")
    /\ startLen' = Len(Load(HasWindow, readOk, storage).items)
    /\ nLogged' = 0
    /\ UNCHANGED <<sw, otherTab, otherLogged, storage, clock, tz, clipboard>>

\* A second tab of the same origin opens the page: its useLocalStorage reads the
\* slot once, in the initializer of useState.
OtherTabOpen(readOk) ==
    /\ otherTab = NoTab
    /\ otherTab' = Load(HasWindow, readOk, storage)
    /\ otherLogged' = 0
    /\ lastOp' = Op("other_load")
    /\ UNCHANGED <<sw, storage, storedValue, clock, tz, toastMessage, timers, timerLeft,
                   toastAge, clipboard, copyPromise, view, chartPeriod, selectedDayData,
                   listView, chartData, startLen, nLogged>>

\* handleLogUrination in the second tab.
OtherTabLog(writeOk) ==
    /\ otherTab.kind = "array"
    /\ Len(otherTab.items) < MaxLog
    /\ LET newEntry == LogEntry(clock, clock)
           r == SetValue(otherTab, ArrayValue(PrependUpdater(newEntry, otherTab.items)),
                         HasWindow, writeOk, storage)
       IN  /\ otherTab' = r.storedValue
           /\ storage' = r.storage
    /\ otherLogged' = otherLogged + 1
    /\ lastOp' = Op(IF writeOk THEN "other_log_ok" ELSE "other_log_failed")
    /\ UNCHANGED <<sw, storedValue, clock, tz, toastMessage, timers, timerLeft, toastAge,
                   clipboard, copyPromise, view, chartPeriod, selectedDayData, listView,
                   chartData, startLen, nLogged>>

\* handleClearLog in the second tab.
OtherTabClear(answer, writeOk) ==
    /\ otherTab.kind = "array"
    /\ IF ClearConfirmed(answer)
       THEN LET r == SetValue(otherTab, ArrayValue(<<>>), HasWindow, writeOk, storage)
            IN  /\ otherTab' = r.storedValue
                /\ storage' = r.storage
                /\ otherLogged' = 0
       ELSE UNCHANGED <<otherTab, storage, otherLogged>>
    /\ lastOp' = Op(IF ~answer THEN "other_clear_declined"
                    ELSE IF writeOk THEN "other_clear_ok" ELSE "other_clear_failed")
    /\ UNCHANGED <<sw, storedValue, clock, tz, toastMessage, timers, timerLeft, toastAge,
                   clipboard, copyPromise, view, chartPeriod, selectedDayData, listView,
                   chartData, startLen, nLogged>>

\* The callback of cache.match in the fetch listener: fetch(event.request) is
\* issued, and respondWith gets cachedResponse at once or waits for fetchPromise.
FetchEvent(u) ==
    /\ Len(sw.inflight) < MaxInflight
    /\ LET cachedResponse == sw.cache[u]
           fromCache == RespondsFromCache(cachedResponse)
       IN  sw' = [sw EXCEPT
                    !.inflight = Append(@, [url |-> u, waiting |-> ~fromCache]),
                    !.last = IF fromCache
                             THEN [from |-> "cache", url |-> u, response |-> cachedResponse]
                             ELSE [from |-> "pending", url |-> u, response |-> NoResponse]]
    /\ lastOp' = Op("fetch_event")
    /\ UNCHANGED <<otherTab, otherLogged, storage, storedValue, clock, tz, toastMessage,
                   timers, timerLeft, toastAge, clipboard, copyPromise, view, chartPeriod,
                   selectedDayData, listView, chartData, startLen, nLogged>>

\* fetchPromise's then callback: the network answers the i-th fetch in flight.
NetworkResponse(i, status) ==
    /\ i \in 1..Len(sw.inflight)
    /\ LET f == sw.inflight[i]
           networkResponse == ServerResponse(status, sw.server)
       IN  sw' = [sw EXCEPT
                    !.cache = IF ShouldCache(networkResponse)
                              THEN [@ EXCEPT ![f.url] = networkResponse] ELSE @,
                    !.inflight = RemoveAt(@, i),
                    !.last = IF f.waiting
                             THEN [from |-> "network", url |-> f.url,
                                   response |-> networkResponse]
                             ELSE [from |-> "background", url |-> f.url,
                                   response |-> networkResponse]]
    /\ lastOp' = Op("net_response")
    /\ UNCHANGED <<otherTab, otherLogged, storage, storedValue, clock, tz, toastMessage,
                   timers, timerLeft, toastAge, clipboard, copyPromise, view, chartPeriod,
                   selectedDayData, listView, chartData, startLen, nLogged>>

\* fetch rejects (no network): fetchPromise rejects, and with it respondWith
\* when it waits for fetchPromise.
NetworkError(i) ==
    /\ i \in 1..Len(sw.inflight)
    /\ LET f == sw.inflight[i]
       IN  sw' = [sw EXCEPT
                    !.inflight = RemoveAt(@, i),
                    !.last = [from |-> IF f.waiting THEN "rejected" ELSE "background",
                              url |-> f.url, response |-> NoResponse]]
    /\ lastOp' = Op("net_error")
    /\ UNCHANGED <<otherTab, otherLogged, storage, storedValue, clock, tz, toastMessage,
                   timers, timerLeft, toastAge, clipboard, copyPromise, view, chartPeriod,
                   selectedDayData, listView, chartData, startLen, nLogged>>

\* A new version of the application is deployed on the server.
Deploy ==
    /\ sw.server < MaxVersion
    /\ sw' = [sw EXCEPT !.server = @ + 1]
    /\ lastOp' = Op("deploy")
    /\ UNCHANGED <<otherTab, otherLogged, storage, storedValue, clock, tz, toastMessage,
                   timers, timerLeft, toastAge, clipboard, copyPromise, view, chartPeriod,
                   selectedDayData, listView, chartData, startLen, nLogged>>

\* handleCopyToClipboard, up to the call of navigator.clipboard.writeText.
CopyToClipboard ==
    /\ Mounted
    /\ ~copyPromise.pending
    /\ IF Len(log) = 0
       THEN /\ timers < MaxTimers
            /\ ShowToast("No hay nada que copiar.")
            /\ lastOp' = Op("copy_empty")
            /\ UNCHANGED copyPromise
       ELSE /\ copyPromise' = [pending |-> TRUE, text |-> TextToCopy(log, tz)]
            /\ lastOp' = Op("copy")
            /\ UNCHANGED <<toastMessage, timers, timerLeft, toastAge>>
    /\ UNCHANGED <<sw, otherTab, otherLogged, storage, storedValue, clock, tz, clipboard, view, chartPeriod,
                   selectedDayData, listView, chartData, startLen, nLogged>>

\* The writeText promise settles: .then on success, .catch on failure.
CopySettled(ok) ==
    /\ copyPromise.pending
    /\ timers < MaxTimers
    /\ clipboard' = IF ok THEN [written |-> TRUE, text |-> copyPromise.text] ELSE clipboard
    /\ ShowToast(IF ok THEN "Copiado al portapapeles!" ELSE "Error al copiar.")
    /\ copyPromise' = NoPromise
    /\ lastOp' = Op(IF ok THEN "copy_done" ELSE "copy_error")
    /\ UNCHANGED <<sw, otherTab, otherLogged, storage, storedValue, clock, tz, view, chartPeriod, selectedDayData,
                   listView, chartData, startLen, nLogged>>

\* The list / chart buttons, shown while the log is not empty.
SetView(v) ==
    /\ Mounted
    /\ Len(log) > 0
    /\ v # view
    /\ view' = v
    /\ listView' = RenderedList(storedValue, v, tz)
    /\ chartData' = RenderedChart(storedValue, v, chartPeriod, clock, tz)
    /\ lastOp' = Op("view")
    /\ UNCHANGED <<sw, otherTab, otherLogged, storage, storedValue, clock, tz, toastMessage, timers, timerLeft, toastAge, clipboard,
                   copyPromise, chartPeriod, selectedDayData, startLen, nLogged>>

\* The period buttons above the chart.
SetChartPeriod(p) ==
    /\ Mounted
    /\ view = "chart"
    /\ p # chartPeriod
    /\ chartPeriod' = p
    /\ chartData' = RenderedChart(storedValue, view, p, clock, tz)
    /\ lastOp' = Op("period")
    /\ UNCHANGED <<sw, otherTab, otherLogged, storage, storedValue, clock, tz, toastMessage, timers, timerLeft, toastAge, clipboard,
                   copyPromise, view, selectedDayData, listView, startLen, nLogged>>

\* A click on bar i of the chart: handleBarClick(d.fullDate), then DetailsModal
\* sorts the selected entries in place.
BarClick(i) ==
    /\ Mounted
    /\ view = "chart"
    /\ i \in 1..Len(chartData)
    /\ selectedDayData' =
          [open |-> TRUE, items |-> SortDesc(DayEntries(log, chartData[i].fullDate, tz))]
    /\ lastOp' = [name |-> "bar", arg |-> chartData[i].fullDate]
    /\ UNCHANGED <<sw, otherTab, otherLogged, storage, storedValue, clock, tz, toastMessage, timers, timerLeft, toastAge, clipboard,
                   copyPromise, view, chartPeriod, listView, chartData, startLen, nLogged>>

\* onClose of DetailsModal.
CloseDetails ==
    /\ selectedDayData.open
    /\ selectedDayData' = NoSelection
    /\ lastOp' = Op("close")
    /\ UNCHANGED <<sw, otherTab, otherLogged, storage, storedValue, clock, tz, toastMessage, timers, timerLeft, toastAge, clipboard,
                   copyPromise, view, chartPeriod, listView, chartData, startLen, nLogged>>

(***************************************************************************)
(* Spec: the log and its slot.                                              *)
(***************************************************************************)
\* Collections an earlier session may have left in the slot.
StoredCollections == {<<>>, <<LogEntry(0, 0)>>}

\* What the slot may hold when the page is opened.
SlotContents ==
    {NoItem, Item(<<>>), Item(<<GARBAGE>>), Item(<<LBRACK, GARBAGE>>), Item(<<NULL_WORD>>),
     Item(<<1>>), Item(<<LBRACE, RBRACE>>)}
    \cup {Item(JSONStringify(ArrayValue(c))) : c \in StoredCollections}

\* The page is opened at tick 1, in UTC.
Init == \E slot \in SlotContents, readOk \in BOOLEAN : Start(slot, readOk, 0, 1)

Next ==
    \/ \E tick \in {0, 1}, writeOk \in BOOLEAN : LogUrination(tick, writeOk)
    \/ \E answer \in BOOLEAN, writeOk \in BOOLEAN : ClearLog(answer, writeOk)
    \/ \E readOk \in BOOLEAN : Reload(readOk)
    \/ Tick
    \/ TimerFire

Spec == Init /\ [][Next]_vars

(***************************************************************************)
(* SpecExport: logging under a wall clock that can be set back, and the     *)
(* clipboard export.                                                        *)
(***************************************************************************)
\* The page is opened on an empty slot; every write succeeds and the clock does
\* not advance inside a handler.
InitExport == \E zone \in TimeZones : Start(NoItem, TRUE, zone, 0)

NextExport ==
    \/ LogUrination(0, TRUE)
    \/ Tick
    \/ \E c \in 0..MaxClock : SetClock(c)
    \/ CopyToClipboard
    \/ \E ok \in BOOLEAN : CopySettled(ok)
    \/ TimerFire

SpecExport == InitExport /\ [][NextExport]_vars

(***************************************************************************)
(* SpecView: the views of a collection loaded from the slot.                *)
(***************************************************************************)
ViewTimestamps == 0..MaxViewTs

\* The collections of at most MaxLog entries logged at ViewTimestamps, in any order.
ViewCollections ==
    UNION {[1..n -> {LogEntry(t, t) : t \in ViewTimestamps}] : n \in 0..MaxLog}

\* Moments at which the page is opened: right after the last entry, and a week
\* after the first ones.
ViewNows == {MaxViewTs, 7 * oneDay, 7 * oneDay + 1}

InitView ==
    \E c \in ViewCollections, zone \in TimeZones, now \in ViewNows :
        Start(Item(JSONStringify(ArrayValue(c))), TRUE, zone, now)

NextView ==
    \/ \E v \in {"list", "chart"} : SetView(v)
    \/ \E p \in {"week", "month", "all"} : SetChartPeriod(p)
    \/ \E i \in 1..MaxLog : BarClick(i)
    \/ CloseDetails

SpecView == InitView /\ [][NextView]_vars

(***************************************************************************)
(* Properties of the log and its slot (Spec).                               *)
(***************************************************************************)
LogStep == lastOp'.name \in {"log_ok", "log_failed"}
ConfirmedClearStep == lastOp'.name \in {"clear_ok", "clear_failed"}

\* C1: starting from an empty collection, N log actions with no clear in
\* between leave exactly N entries, and every log action puts its new entry at
\* the head, in front of the earlier entries, which keep their order.
C1_LogPrepends ==
    /\ [](startLen = 0 => Len(log) = nLogged)
    /\ [][LogStep => /\ Len(log') = Len(log) + 1
                     /\ Tail(log') = log
                     /\ Head(log').id = clock]_vars

C1_Witness ==
    /\ startLen = 0
    /\ nLogged = 3
    /\ Len(log) = 3
    /\ lastOp.name = "log_ok"
    /\ log[1].timestamp > log[3].timestamp

\* C2: after a log action or a clear whose write succeeded, the slot holds the
\* serialization of the collection the mutation produced, and a load that reads
\* the slot returns that collection.
C2_WriteReflectsMutation ==
    lastOp.name \in {"log_ok", "clear_ok"} =>
        /\ storage.present
        /\ JSONParse(storage.text) = Parsed(storedValue)
        /\ Load(HasWindow, TRUE, storage) = storedValue

C2_Witness ==
    /\ lastOp.name = "log_ok"
    /\ Len(log) = 2
    /\ log[1] # log[2]
    /\ Load(HasWindow, TRUE, storage) = storedValue

\* C3: when the write of a log action or of a clear fails, the handler still
\* runs to its end (its toast is shown), the collection in memory is the result
\* of the mutation, the slot is left as it was, and nothing writes the slot
\* later on behalf of the failed call: the slot changes only in a step whose
\* own write succeeds.
C3_WriteFailureSwallowed ==
    /\ [][lastOp'.name = "log_failed" =>
            /\ storage' = storage
            /\ Len(log') = Len(log) + 1
            /\ Tail(log') = log
            /\ toastMessage' = "Registro guardado!"]_vars
    /\ [][lastOp'.name = "clear_failed" =>
            /\ storage' = storage
            /\ log' = <<>>
            /\ toastMessage' = "Registro borrado."]_vars
    /\ [][storage' # storage => lastOp'.name \in {"log_ok", "clear_ok"}]_vars

C3_Witness ==
    /\ lastOp.name = "clear_failed"
    /\ log = <<>>
    /\ storage.present
    /\ Load(HasWindow, TRUE, storage) # storedValue
    /\ toastMessage = "Registro borrado."

\* Whether the slot holds the serialization of a collection of entries.
HoldsCollection(slot) ==
    \E c \in StoredCollections : slot = Item(JSONStringify(ArrayValue(c)))

\* C4 (as claimed): whatever the slot holds, load returns a sequence of entries:
\* the collection serialized in the slot when the slot holds one and can be
\* read, and the empty sequence otherwise.
C4_LoadReturnsEntries ==
    lastOp.name = "load" =>
        /\ storedValue.kind = "array"
        /\ ~HoldsCollection(storage) => log = <<>>
        /\ HoldsCollection(storage) =>
              log = <<>> \/ storage = Item(JSONStringify(storedValue))

\* C5 (as claimed): a confirmed clear leaves the collection empty and the
\* collection a load from the slot returns afterwards is the empty sequence; a
\* declined clear changes neither the collection, nor the slot, nor the toast.
C5_ClearRoundTrips ==
    [][/\ ConfirmedClearStep =>
            /\ log' = <<>>
            /\ \A readOk \in BOOLEAN :
                  LET loaded == Load(HasWindow, readOk, storage')
                  IN  loaded.kind = "array" => loaded.items = <<>>
       /\ lastOp'.name = "clear_declined" =>
            UNCHANGED <<storedValue, storage, toastMessage>>]_vars

\* C5 (amended): a confirmed clear leaves the collection empty and, when its
\* write succeeded, a load from the slot returns the empty sequence; a declined
\* clear changes neither the collection, nor the slot, nor the toast.
C5_ClearRoundTripsWhenWritten ==
    [][/\ ConfirmedClearStep => log' = <<>>
       /\ lastOp'.name = "clear_ok" =>
            \A readOk \in BOOLEAN : Load(HasWindow, readOk, storage') = initialValue
       /\ lastOp'.name = "clear_declined" =>
            UNCHANGED <<storedValue, storage, toastMessage>>]_vars

C5_Witness ==
    /\ lastOp.name = "clear_ok"
    /\ startLen = 0
    /\ log = <<>>
    /\ storage = Item(<<LBRACK, RBRACK>>)
    /\ toastMessage = "Registro borrado."

\* C6 (as claimed): every entry of every collection has id = timestamp.
C6_IdEqualsTimestamp ==
    \A i \in 1..Len(log) : log[i].id = log[i].timestamp

\* C7 (as claimed): the ids of the entries of a collection are pairwise distinct.
C7_IdsDistinct ==
    \A i, j \in 1..Len(log) : i # j => log[i].id # log[j].id

(***************************************************************************)
(* Properties of the export (SpecExport).                                   *)
(***************************************************************************)
Range(s) == {s[i] : i \in 1..Len(s)}
Count(s, e) == Cardinality({i \in 1..Len(s) : s[i] = e})

\* The local instant a line of the export shows.
LineInstant(line) == line.date * oneDay + line.time

\* C8 (as claimed): the export has one line per entry and the line of an entry
\* with a later timestamp comes before the line of an entry with an earlier one;
\* for an empty collection nothing is handed to the clipboard and the toast is
\* the 'nothing to copy' message.
C8_ExportNewestFirst ==
    /\ lastOp.name = "copy" =>
          /\ copyPromise.pending
          /\ Len(copyPromise.text) = Len(log)
          /\ \A e \in Range(log) :
                Count(copyPromise.text, ExportLine(e.timestamp, tz))
                  = Cardinality({i \in 1..Len(log) : log[i].timestamp = e.timestamp})
          /\ \A k, l \in 1..Len(copyPromise.text) :
                k < l => LineInstant(copyPromise.text[k]) >= LineInstant(copyPromise.text[l])
    /\ lastOp.name = "copy_empty" =>
          /\ ~copyPromise.pending
          /\ toastMessage = "No hay nada que copiar."

(***************************************************************************)
(* Properties of the views (SpecView).                                      *)
(***************************************************************************)
\* C9: a click on a bar of the chart selects exactly the entries of the whole
\* collection that fall on the calendar day of that bar, none missing and none
\* added, whatever the order of the collection; each of them has the key of the
\* bar, and the bar counts those of them that are inside the period.
C9_DrillDownExact ==
    lastOp.name = "bar" =>
        LET sel == selectedDayData.items
            key == lastOp.arg
        IN  /\ selectedDayData.open
            /\ sel # <<>>
            /\ Range(sel) \subseteq Range(log)
            /\ \A e \in Range(log) :
                  Count(sel, e) =
                    IF FormatDay(e.timestamp, tz) = FormatDay(sel[1].timestamp, tz)
                    THEN Count(log, e) ELSE 0
            /\ \A i \in 1..Len(sel) : DateString(sel[i].timestamp, tz) = key
            /\ \E b \in 1..Len(chartData) :
                  /\ chartData[b].fullDate = key
                  /\ chartData[b].value =
                       Cardinality({i \in 1..Len(sel) :
                                      InPeriod(sel[i].timestamp, chartPeriod, clock)})

C9_Witness ==
    /\ lastOp.name = "bar"
    /\ tz # 0
    /\ chartPeriod = "week"
    /\ Len(selectedDayData.items) = 2
    /\ Len(log) = 3
    /\ log[1].timestamp < log[3].timestamp
    /\ \E b \in 1..Len(chartData) :
          chartData[b].fullDate = lastOp.arg /\ chartData[b].value = 1

\* The latest timestamp of a non-empty sequence of entries.
MaxTimestamp(s) ==
    CHOOSE m \in {s[i].timestamp : i \in 1..Len(s)} :
        \A i \in 1..Len(s) : s[i].timestamp <= m

\* The entry of a calendar day that was inserted first.
FirstInserted(entries, date, zone) ==
    entries[CHOOSE i \in 1..Len(entries) :
              /\ FormatDay(entries[i].timestamp, zone) = date
              /\ \A j \in 1..(i - 1) : FormatDay(entries[j].timestamp, zone) # date]

\* C10: the day buckets of the list are in descending order of their latest
\* entry, so the bucket of the most recent entry of the collection is first, in
\* whatever order the entries were inserted; that order is also the descending
\* order of the buckets' first-inserted entries, which is what the code compares.
C10_BucketsByLatestEntry ==
    view = "list" /\ Mounted /\ log # <<>> =>
        /\ listView # <<>>
        /\ \E e \in Range(listView[1].entries) : e.timestamp = MaxTimestamp(log)
        /\ \A i, j \in 1..Len(listView) :
              i < j =>
                /\ MaxTimestamp(listView[i].entries) > MaxTimestamp(listView[j].entries)
                /\ FirstInserted(log, listView[i].date, tz).timestamp
                     > FirstInserted(log, listView[j].date, tz).timestamp

C10_Witness ==
    /\ view = "list"
    /\ Len(log) = 3
    /\ Len(listView) = 2
    /\ log[1].timestamp < log[2].timestamp
    /\ log[2].timestamp < log[3].timestamp
    /\ FirstInserted(log, listView[1].date, tz).timestamp < MaxTimestamp(listView[1].entries)


(***************************************************************************)
(* SpecChart: the chart of a collection whose entries lie around the ends   *)
(* of the week and month windows.                                           *)
(***************************************************************************)
\* The moment the page is opened.
ChartNow == 31 * oneDay

\* Ages of the stored entries at ChartNow: one, six and ten days, the ends of
\* the week and of the month window, and one tick inside each end.
ChartAges ==
    {oneDay, 6 * oneDay, 7 * oneDay - 1, 7 * oneDay, 10 * oneDay,
     30 * oneDay - 1, 30 * oneDay}

ChartCollections ==
    UNION {[1..n -> {LogEntry(ChartNow - a, ChartNow - a) : a \in ChartAges}] : n \in 0..MaxLog}

InitChart ==
    \E c \in ChartCollections, zone \in TimeZones :
        Start(Item(JSONStringify(ArrayValue(c))), TRUE, zone, ChartNow)

SpecChart == InitChart /\ [][NextView]_vars

\* Whether an entry is inside the window of the period, as the specification
\* of the chart states it: less than 7 x 24h, or 30 x 24h, before now.
InsideWindow(e, period, now) ==
    \/ period = "all"
    \/ period = "week" /\ now - e.timestamp < 7 * oneDay
    \/ period = "month" /\ now - e.timestamp < 30 * oneDay

\* C11: the bins of the chart count exactly the entries inside the window of
\* the period: every such entry is counted in the bin of its day, and an entry
\* outside the window, also one exactly at its end, is counted in no bin.
C11_PeriodWindow ==
    view = "chart" /\ Mounted =>
        /\ \A i \in 1..Len(log) :
              InsideWindow(log[i], chartPeriod, clock) =>
                \E b \in 1..Len(chartData) :
                    chartData[b].fullDate = DateString(log[i].timestamp, tz)
        /\ \A b \in 1..Len(chartData) :
              /\ chartData[b].value > 0
              /\ chartData[b].value =
                   Cardinality({i \in 1..Len(log) :
                                  /\ InsideWindow(log[i], chartPeriod, clock)
                                  /\ DateString(log[i].timestamp, tz) = chartData[b].fullDate})
        /\ \A a, b \in 1..Len(chartData) :
              a # b => chartData[a].fullDate # chartData[b].fullDate

C11_Witness ==
    /\ view = "chart"
    /\ chartPeriod = "week"
    /\ log = <<LogEntry(ChartNow - oneDay, ChartNow - oneDay),
               LogEntry(ChartNow - 6 * oneDay, ChartNow - 6 * oneDay),
               LogEntry(ChartNow - 10 * oneDay, ChartNow - 10 * oneDay)>>
    /\ Len(chartData) = 2
    /\ chartData[1].value = 1
    /\ chartData[2].value = 1


(***************************************************************************)
(* SpecToast: the toast and its dismiss callbacks, with the seconds that    *)
(* pass between the handlers.                                               *)
(***************************************************************************)
InitToast == Start(NoItem, TRUE, 0, 0)

NextToast ==
    \/ LogUrination(0, TRUE)
    \/ \E answer \in BOOLEAN : ClearLog(answer, TRUE)
    \/ CopyToClipboard
    \/ \E ok \in BOOLEAN : CopySettled(ok)
    \/ Elapse
    \/ TimerDue

SpecToast == InitToast /\ [][NextToast]_vars

\* The steps of the handlers that call showToast, with the message each shows.
ToastOf(name) ==
    CASE name \in {"log_ok", "log_failed"} -> "Registro guardado!"
      [] name \in {"clear_ok", "clear_failed"} -> "Registro borrado."
      [] name = "copy_empty" -> "No hay nada que copiar."
      [] name = "copy_done" -> "Copiado al portapapeles!"
      [] name = "copy_error" -> "Error al copiar."
      [] OTHER -> ""

\* C12 (as claimed): a message that showToast shows replaces the one on screen
\* at once, and a message leaves the screen only when a newer one replaces it
\* or when it has been shown for ToastDelay seconds: the callback scheduled for
\* an earlier message does not remove a newer one before that.
C12_ToastStaysTwoSeconds ==
    /\ [][ToastOf(lastOp'.name) # "" => toastMessage' = ToastOf(lastOp'.name)]_vars
    /\ [][toastMessage # "" /\ toastMessage' = "" => toastAge = ToastDelay]_vars


(***************************************************************************)
(* SpecTabs: two tabs of the same origin over the one localStorage slot.    *)
(***************************************************************************)
\* Both tabs start from an empty slot.  No dismiss callback runs here, so the
\* first tab saves at most MaxTimers times.
InitTabs == Start(NoItem, TRUE, 0, 1)

NextTabs ==
    \/ \E writeOk \in BOOLEAN : LogUrination(0, writeOk)
    \/ \E answer \in BOOLEAN, writeOk \in BOOLEAN : ClearLog(answer, writeOk)
    \/ \E readOk \in BOOLEAN : OtherTabOpen(readOk)
    \/ \E writeOk \in BOOLEAN : OtherTabLog(writeOk)
    \/ \E answer \in BOOLEAN, writeOk \in BOOLEAN : OtherTabClear(answer, writeOk)
    \/ Tick

SpecTabs == InitTabs /\ [][NextTabs]_vars

OwnChanges == {"log_ok", "log_failed", "clear_ok", "clear_failed"}
OtherChanges == {"other_log_ok", "other_log_failed", "other_clear_ok", "other_clear_failed"}

\* C13: with two tabs on the one slot, the collection a tab holds in memory
\* changes only by that tab's own append and clear (the second tab's after it
\* has opened), and every successful save leaves in the slot exactly the
\* serialized collection of the tab that saved, whatever the slot held before.
C13_TabsDoNotSync ==
    /\ [][storedValue' # storedValue => lastOp'.name \in OwnChanges]_vars
    /\ [][otherTab # NoTab /\ otherTab' # otherTab => lastOp'.name \in OtherChanges]_vars
    /\ [][lastOp'.name \in {"log_ok", "clear_ok"}
            => storage' = Item(JSONStringify(storedValue'))]_vars
    /\ [][lastOp'.name \in {"other_log_ok", "other_clear_ok"}
            => storage' = Item(JSONStringify(otherTab'))]_vars

\* The first tab has just saved over the slot: the tabs differ and the slot
\* lacks the entry the second tab prepended last.
C13_Witness ==
    /\ lastOp.name = "log_ok"
    /\ Mounted /\ otherTab.kind = "array"
    /\ otherLogged > 0
    /\ storedValue # otherTab
    /\ storage.present
    /\ JSONParse(storage.text).ok
    /\ \A i \in 1..Len(JSONParse(storage.text).value.items) :
           JSONParse(storage.text).value.items[i] # otherTab.items[1]


(***************************************************************************)
(* SpecAxis: the chart of collections with up to MaxAxisCount entries on    *)
(* each of three consecutive days.                                          *)
(***************************************************************************)
AxisDays == 3

\* counts[d] entries on day d (d = 1..AxisDays), each at one of the ticks of
\* its day, with ids 1, 2, ...
RECURSIVE AxisEntries(_, _, _)
AxisEntries(counts, d, k) ==
    IF d > AxisDays THEN <<>>
    ELSE IF counts[d] = 0 THEN AxisEntries(counts, d + 1, k)
    ELSE <<LogEntry(k, (d - 1) * oneDay + (k % oneDay))>>
         \o AxisEntries([counts EXCEPT ![d] = @ - 1], d, k + 1)

AxisCollections == {AxisEntries(counts, 1, 1) : counts \in [1..AxisDays -> 0..MaxAxisCount]}

\* The page is opened in UTC, the day after the last entries.
InitAxis ==
    \E c \in AxisCollections :
        Start(Item(JSONStringify(ArrayValue(c))), TRUE, 0, AxisDays * oneDay)

SpecAxis == InitAxis /\ [][NextView]_vars

ChartDrawn == view = "chart" /\ chartData # <<>>
Min5(n) == IF n < 5 THEN n ELSE 5

\* The axis top of C14: the largest count of a bin when that is at most 5, and
\* otherwise the least multiple of 5 that is not below it.
AxisTopRule ==
    /\ \A i \in 1..Len(chartData) : chartData[i].value <= maxValue
    /\ \E i \in 1..Len(chartData) : chartData[i].value = maxValue
    /\ maxValue <= 5 => yAxisTop = maxValue
    /\ maxValue > 5 => yAxisTop % 5 = 0 /\ yAxisTop >= maxValue /\ yAxisTop - maxValue < 5

\* C14 (as claimed): for non-empty bins the axis top follows AxisTopRule, and
\* the number of tick marks drawn on the Y axis is min(axis top, 5) when the
\* axis top is positive, a single zero tick otherwise.
C14_TickMarksDrawn ==
    ChartDrawn =>
        /\ AxisTopRule
        /\ IF yAxisTop > 0 THEN Len(yAxisLabels) = Min5(yAxisTop) ELSE yAxisLabels = <<0>>

\* C14 (amended): for non-empty bins the axis top follows AxisTopRule and is
\* positive; the axis is divided into min(axis top, 5) equal intervals and one
\* labelled tick mark is drawn at each of their min(axis top, 5) + 1 ends,
\* from 0 up to the axis top.
C14_TickIntervals ==
    ChartDrawn =>
        /\ AxisTopRule
        /\ yAxisTop > 0
        /\ numTicks = Min5(yAxisTop)
        /\ Len(yAxisLabels) = Min5(yAxisTop) + 1
        /\ \A i \in 1..Len(yAxisLabels) : yAxisLabels[i] * numTicks = yAxisTop * (i - 1)

\* Counts [1, 6, 11]: axis top 15, five intervals, six tick marks.
C14_Witness ==
    /\ ChartDrawn
    /\ Len(chartData) = 3
    /\ chartData[1].value = 1 /\ chartData[2].value = 6 /\ chartData[3].value = 11
    /\ yAxisTop = 15
    /\ numTicks = 5
    /\ yAxisLabels = <<0, 3, 6, 9, 12, 15>>


(***************************************************************************)
(* SpecSW: the fetch listener of the service worker.                        *)
(***************************************************************************)
InitSW == Start(NoItem, TRUE, 0, 0)

NextSW ==
    \/ \E u \in Urls : FetchEvent(u)
    \/ \E i \in 1..MaxInflight, status \in Statuses : NetworkResponse(i, status)
    \/ \E i \in 1..MaxInflight : NetworkError(i)
    \/ Deploy

SpecSW == InitSW /\ [][NextSW]_vars

\* The fetch in flight that a step of NetworkResponse or NetworkError answers.
Answered == CHOOSE i \in 1..Len(sw.inflight) : sw'.inflight = RemoveAt(sw.inflight, i)

\* C15: the fetch listener is stale-while-revalidate.  A request with a cached
\* response gets that response at once, and a network fetch for it is issued
\* all the same; a request with no cached response gets the network response
\* when it arrives; a network response with status 200 is put in the cache
\* under its request, and one with another status leaves the cache as it is, so
\* that every cached response has status 200.
C15_StaleWhileRevalidate ==
    /\ [][lastOp'.name = "fetch_event" =>
            /\ sw'.cache = sw.cache
            /\ Len(sw'.inflight) = Len(sw.inflight) + 1
            /\ sw'.inflight[Len(sw'.inflight)].url = sw'.last.url
            /\ IF sw.cache[sw'.last.url].present
               THEN /\ sw'.last.from = "cache"
                    /\ sw'.last.response = sw.cache[sw'.last.url]
                    /\ ~sw'.inflight[Len(sw'.inflight)].waiting
               ELSE /\ sw'.last.from = "pending"
                    /\ sw'.inflight[Len(sw'.inflight)].waiting]_vars
    /\ [][lastOp'.name = "net_response" =>
            /\ sw'.last.url = sw.inflight[Answered].url
            /\ sw.inflight[Answered].waiting <=> sw'.last.from = "network"
            /\ IF sw'.last.response.status = 200
               THEN sw'.cache = [sw.cache EXCEPT ![sw'.last.url] = sw'.last.response]
               ELSE sw'.cache = sw.cache]_vars
    /\ [][lastOp'.name \in {"net_error", "deploy"} => sw'.cache = sw.cache]_vars
    /\ [](\A u \in Urls : sw.cache[u].present => sw.cache[u].status = 200)

\* A stale response was served from the cache and the background fetch has
\* just put the server's newer response in the cache.
C15_Witness ==
    /\ lastOp.name = "net_response"
    /\ sw.last.from = "background"
    /\ sw.last.response.status = 200
    /\ sw.last.response.body = sw.server
    /\ sw.server > 0
    /\ sw.cache[sw.last.url] = sw.last.response

====
